---- MODULE Spec2Model ----
(***************************************************************************)
(* Model of Web/Dialect_data_Analyse.py: the province resolver             *)
(* (extract_province), the colour allocator (generate_province_colors) and *)
(* the record builder (generate_dialect_json).                             *)
(*                                                                         *)
(* Text is a sequence of characters.  A character is written as a string   *)
(* "<pinyin>_<code point>", e.g. "jing_4EAC" is the character 京.  A canonical *)
(* province name (a value the resolver returns) is written as one string   *)
(* in pinyin, e.g. "jiangsusheng" is 江苏省 and "weizhishengfen" is 未知省份.  *)
(***************************************************************************)
EXTENDS Integers, Sequences, FiniteSets, TLC

VARIABLES
    \* one call of extract_province
    location, province, rpc,
    \* one call of generate_province_colors
    labels, color_map, cpc,
    \* one call of generate_dialect_json
    excel, excel_ok, out_ok, pc, df, df_province, unique_provinces, province_colors,
    index, dialect_list, out_file, returned

resolver_vars == <<location, province, rpc>>
color_vars == <<labels, color_map, cpc>>
driver_vars == <<excel, excel_ok, out_ok, pc, df, df_province, unique_provinces,
                 province_colors, index, dialect_list, out_file, returned>>
vars == <<resolver_vars, color_vars, driver_vars>>

----------------------------------------------------------------------------
(* Bounds of the model *)

\* a location text is the concatenation of at most MaxParts table entries or filler characters
MaxParts == 2

\* generate_province_colors is called on lists of at most MaxLabels labels (there are
\* 360 integer hues; the bound is one more)
MaxLabels == 361

\* the input table has at most MaxRows rows
MaxRows == 2

----------------------------------------------------------------------------
(* Cells of the input table.  A cell read by pandas is missing (NaN), a    *)
(* text or a number.                                                       *)

NaN == [k |-> "nan", s |-> <<>>, n |-> 0]
Text(s) == [k |-> "str", s |-> s, n |-> 0]
Number(n) == [k |-> "num", s |-> <<>>, n |-> n]

\* pd.isna / pd.notnull
isna(cell) == cell.k = "nan"
notnull(cell) == ~isna(cell)

\* Python truthiness of a cell value: "", 0 and None are false; NaN is a non-zero float
truthy(cell) ==
    CASE cell.k = "str" -> cell.s # <<>>
      [] cell.k = "num" -> cell.n # 0
      [] OTHER -> TRUE

----------------------------------------------------------------------------
(* extract_province: the lookup tables *)

\* provinces (list of stems, in list order)
provinces ==
    << <<"bei_5317", "jing_4EAC">>,   \* 北京
       <<"tian_5929", "jin_6D25">>,   \* 天津
       <<"he_6CB3", "bei_5317">>,   \* 河北
       <<"shan_5C71", "xi_897F">>,   \* 山西
       <<"nei_5185", "meng_8499", "gu_53E4">>,   \* 内蒙古
       <<"liao_8FBD", "ning_5B81">>,   \* 辽宁
       <<"ji_5409", "lin_6797">>,   \* 吉林
       <<"hei_9ED1", "long_9F99", "jiang_6C5F">>,   \* 黑龙江
       <<"shang_4E0A", "hai_6D77">>,   \* 上海
       <<"jiang_6C5F", "su_82CF">>,   \* 江苏
       <<"zhe_6D59", "jiang_6C5F">>,   \* 浙江
       <<"an_5B89", "hui_5FBD">>,   \* 安徽
       <<"fu_798F", "jian_5EFA">>,   \* 福建
       <<"jiang_6C5F", "xi_897F">>,   \* 江西
       <<"shan_5C71", "dong_4E1C">>,   \* 山东
       <<"he_6CB3", "nan_5357">>,   \* 河南
       <<"hu_6E56", "bei_5317">>,   \* 湖北
       <<"hu_6E56", "nan_5357">>,   \* 湖南
       <<"guang_5E7F", "dong_4E1C">>,   \* 广东
       <<"guang_5E7F", "xi_897F">>,   \* 广西
       <<"hai_6D77", "nan_5357">>,   \* 海南
       <<"chong_91CD", "qing_5E86">>,   \* 重庆
       <<"si_56DB", "chuan_5DDD">>,   \* 四川
       <<"gui_8D35", "zhou_5DDE">>,   \* 贵州
       <<"yun_4E91", "nan_5357">>,   \* 云南
       <<"xi_897F", "zang_85CF">>,   \* 西藏
       <<"shaan_9655", "xi_897F">>,   \* 陕西
       <<"gan_7518", "su_8083">>,   \* 甘肃
       <<"qing_9752", "hai_6D77">>,   \* 青海
       <<"ning_5B81", "xia_590F">>,   \* 宁夏
       <<"xin_65B0", "jiang_7586">>,   \* 新疆
       <<"tai_53F0", "wan_6E7E">>,   \* 台湾
       <<"xiang_9999", "gang_6E2F">>,   \* 香港
       <<"ao_6FB3", "men_95E8">> >>   \* 澳门

\* province_fullname (stem -> canonical name), as key/value pairs in dict order
province_fullname ==
    << <<<<"bei_5317", "jing_4EAC">>, "beijingshi">>,   \* 北京 -> 北京市
       <<<<"tian_5929", "jin_6D25">>, "tianjinshi">>,   \* 天津 -> 天津市
       <<<<"he_6CB3", "bei_5317">>, "hebeisheng">>,   \* 河北 -> 河北省
       <<<<"shan_5C71", "xi_897F">>, "shanxisheng">>,   \* 山西 -> 山西省
       <<<<"nei_5185", "meng_8499", "gu_53E4">>, "neimengguzizhiqu">>,   \* 内蒙古 -> 内蒙古自治区
       <<<<"liao_8FBD", "ning_5B81">>, "liaoningsheng">>,   \* 辽宁 -> 辽宁省
       <<<<"ji_5409", "lin_6797">>, "jilinsheng">>,   \* 吉林 -> 吉林省
       <<<<"hei_9ED1", "long_9F99", "jiang_6C5F">>, "heilongjiangsheng">>,   \* 黑龙江 -> 黑龙江省
       <<<<"shang_4E0A", "hai_6D77">>, "shanghaishi">>,   \* 上海 -> 上海市
       <<<<"jiang_6C5F", "su_82CF">>, "jiangsusheng">>,   \* 江苏 -> 江苏省
       <<<<"zhe_6D59", "jiang_6C5F">>, "zhejiangsheng">>,   \* 浙江 -> 浙江省
       <<<<"an_5B89", "hui_5FBD">>, "anhuisheng">>,   \* 安徽 -> 安徽省
       <<<<"fu_798F", "jian_5EFA">>, "fujiansheng">>,   \* 福建 -> 福建省
       <<<<"jiang_6C5F", "xi_897F">>, "jiangxisheng">>,   \* 江西 -> 江西省
       <<<<"shan_5C71", "dong_4E1C">>, "shandongsheng">>,   \* 山东 -> 山东省
       <<<<"he_6CB3", "nan_5357">>, "henansheng">>,   \* 河南 -> 河南省
       <<<<"hu_6E56", "bei_5317">>, "hubeisheng">>,   \* 湖北 -> 湖北省
       <<<<"hu_6E56", "nan_5357">>, "hunansheng">>,   \* 湖南 -> 湖南省
       <<<<"guang_5E7F", "dong_4E1C">>, "guangdongsheng">>,   \* 广东 -> 广东省
       <<<<"guang_5E7F", "xi_897F">>, "guangxizhuangzuzizhiqu">>,   \* 广西 -> 广西壮族自治区
       <<<<"hai_6D77", "nan_5357">>, "hainansheng">>,   \* 海南 -> 海南省
       <<<<"chong_91CD", "qing_5E86">>, "chongqingshi">>,   \* 重庆 -> 重庆市
       <<<<"si_56DB", "chuan_5DDD">>, "sichuansheng">>,   \* 四川 -> 四川省
       <<<<"gui_8D35", "zhou_5DDE">>, "guizhousheng">>,   \* 贵州 -> 贵州省
       <<<<"yun_4E91", "nan_5357">>, "yunnansheng">>,   \* 云南 -> 云南省
       <<<<"xi_897F", "zang_85CF">>, "xizangzizhiqu">>,   \* 西藏 -> 西藏自治区
       <<<<"shaan_9655", "xi_897F">>, "shaanxisheng">>,   \* 陕西 -> 陕西省
       <<<<"gan_7518", "su_8083">>, "gansusheng">>,   \* 甘肃 -> 甘肃省
       <<<<"qing_9752", "hai_6D77">>, "qinghaisheng">>,   \* 青海 -> 青海省
       <<<<"ning_5B81", "xia_590F">>, "ningxiahuizuzizhiqu">>,   \* 宁夏 -> 宁夏回族自治区
       <<<<"xin_65B0", "jiang_7586">>, "xinjiangweiwuerzizhiqu">>,   \* 新疆 -> 新疆维吾尔自治区
       <<<<"tai_53F0", "wan_6E7E">>, "taiwansheng">>,   \* 台湾 -> 台湾省
       <<<<"xiang_9999", "gang_6E2F">>, "xianggangtebiexingzhengqu">>,   \* 香港 -> 香港特别行政区
       <<<<"ao_6FB3", "men_95E8">>, "aomentebiexingzhengqu">> >>   \* 澳门 -> 澳门特别行政区

\* province_abbr (single character -> canonical name), in dict iteration order
province_abbr ==
    << <<"jing_4EAC", "beijingshi">>,   \* 京 -> 北京市
       <<"jin_6D25", "tianjinshi">>,   \* 津 -> 天津市
       <<"ji_5180", "hebeisheng">>,   \* 冀 -> 河北省
       <<"jin_664B", "shanxisheng">>,   \* 晋 -> 山西省
       <<"meng_8499", "neimengguzizhiqu">>,   \* 蒙 -> 内蒙古自治区
       <<"liao_8FBD", "liaoningsheng">>,   \* 辽 -> 辽宁省
       <<"ji_5409", "jilinsheng">>,   \* 吉 -> 吉林省
       <<"hei_9ED1", "heilongjiangsheng">>,   \* 黑 -> 黑龙江省
       <<"hu_6CAA", "shanghaishi">>,   \* 沪 -> 上海市
       <<"su_82CF", "jiangsusheng">>,   \* 苏 -> 江苏省
       <<"zhe_6D59", "zhejiangsheng">>,   \* 浙 -> 浙江省
       <<"wan_7696", "anhuisheng">>,   \* 皖 -> 安徽省
       <<"min_95FD", "fujiansheng">>,   \* 闽 -> 福建省
       <<"gan_8D63", "jiangxisheng">>,   \* 赣 -> 江西省
       <<"lu_9C81", "shandongsheng">>,   \* 鲁 -> 山东省
       <<"yu_8C6B", "henansheng">>,   \* 豫 -> 河南省
       <<"e_9102", "hubeisheng">>,   \* 鄂 -> 湖北省
       <<"xiang_6E58", "hunansheng">>,   \* 湘 -> 湖南省
       <<"yue_7CA4", "guangdongsheng">>,   \* 粤 -> 广东省
       <<"gui_6842", "guangxizhuangzuzizhiqu">>,   \* 桂 -> 广西壮族自治区
       <<"qiong_743C", "hainansheng">>,   \* 琼 -> 海南省
       <<"yu_6E1D", "chongqingshi">>,   \* 渝 -> 重庆市
       <<"chuan_5DDD", "sichuansheng">>,   \* 川 -> 四川省
       <<"qian_9ED4", "guizhousheng">>,   \* 黔 -> 贵州省
       <<"dian_6EC7", "yunnansheng">>,   \* 滇 -> 云南省
       <<"zang_85CF", "xizangzizhiqu">>,   \* 藏 -> 西藏自治区
       <<"shaan_9655", "shaanxisheng">>,   \* 陕 -> 陕西省
       <<"gan_7518", "gansusheng">>,   \* 甘 -> 甘肃省
       <<"qing_9752", "qinghaisheng">>,   \* 青 -> 青海省
       <<"ning_5B81", "ningxiahuizuzizhiqu">>,   \* 宁 -> 宁夏回族自治区
       <<"xin_65B0", "xinjiangweiwuerzizhiqu">>,   \* 新 -> 新疆维吾尔自治区
       <<"tai_53F0", "taiwansheng">>,   \* 台 -> 台湾省
       <<"gang_6E2F", "xianggangtebiexingzhengqu">>,   \* 港 -> 香港特别行政区
       <<"ao_6FB3", "aomentebiexingzhengqu">> >>   \* 澳 -> 澳门特别行政区

\* city_to_province (city name -> canonical name), in dict iteration order
city_to_province ==
    << <<<<"bei_5317", "jing_4EAC">>, "beijingshi">>,   \* 北京 -> 北京市
       <<<<"shang_4E0A", "hai_6D77">>, "shanghaishi">>,   \* 上海 -> 上海市
       <<<<"tian_5929", "jin_6D25">>, "tianjinshi">>,   \* 天津 -> 天津市
       <<<<"chong_91CD", "qing_5E86">>, "chongqingshi">>,   \* 重庆 -> 重庆市
       <<<<"guang_5E7F", "zhou_5DDE">>, "guangdongsheng">>,   \* 广州 -> 广东省
       <<<<"shen_6DF1", "zhen_5733">>, "guangdongsheng">>,   \* 深圳 -> 广东省
       <<<<"zhu_73E0", "hai_6D77">>, "guangdongsheng">>,   \* 珠海 -> 广东省
       <<<<"hang_676D", "zhou_5DDE">>, "zhejiangsheng">>,   \* 杭州 -> 浙江省
       <<<<"ning_5B81", "bo_6CE2">>, "zhejiangsheng">>,   \* 宁波 -> 浙江省
       <<<<"wen_6E29", "zhou_5DDE">>, "zhejiangsheng">>,   \* 温州 -> 浙江省
       <<<<"nan_5357", "jing_4EAC">>, "jiangsusheng">>,   \* 南京 -> 江苏省
       <<<<"su_82CF", "zhou_5DDE">>, "jiangsusheng">>,   \* 苏州 -> 江苏省
       <<<<"wu_65E0", "xi_9521">>, "jiangsusheng">>,   \* 无锡 -> 江苏省
       <<<<"cheng_6210", "du_90FD">>, "sichuansheng">>,   \* 成都 -> 四川省
       <<<<"mian_7EF5", "yang_9633">>, "sichuansheng">>,   \* 绵阳 -> 四川省
       <<<<"wu_6B66", "han_6C49">>, "hubeisheng">>,   \* 武汉 -> 湖北省
       <<<<"yi_5B9C", "chang_660C">>, "hubeisheng">>,   \* 宜昌 -> 湖北省
       <<<<"xi_897F", "an_5B89">>, "shaanxisheng">>,   \* 西安 -> 陕西省
       <<<<"xian_54B8", "yang_9633">>, "shaanxisheng">>,   \* 咸阳 -> 陕西省
       <<<<"shen_6C88", "yang_9633">>, "liaoningsheng">>,   \* 沈阳 -> 辽宁省
       <<<<"da_5927", "lian_8FDE">>, "liaoningsheng">>,   \* 大连 -> 辽宁省
       <<<<"ji_6D4E", "nan_5357">>, "shandongsheng">>,   \* 济南 -> 山东省
       <<<<"qing_9752", "dao_5C9B">>, "shandongsheng">>,   \* 青岛 -> 山东省
       <<<<"zheng_90D1", "zhou_5DDE">>, "henansheng">>,   \* 郑州 -> 河南省
       <<<<"luo_6D1B", "yang_9633">>, "henansheng">>,   \* 洛阳 -> 河南省
       <<<<"chang_957F", "sha_6C99">>, "hunansheng">>,   \* 长沙 -> 湖南省
       <<<<"zhu_682A", "zhou_6D32">>, "hunansheng">>,   \* 株洲 -> 湖南省
       <<<<"he_5408", "fei_80A5">>, "anhuisheng">>,   \* 合肥 -> 安徽省
       <<<<"fu_798F", "zhou_5DDE">>, "fujiansheng">>,   \* 福州 -> 福建省
       <<<<"nan_5357", "chang_660C">>, "jiangxisheng">>,   \* 南昌 -> 江西省
       <<<<"kun_6606", "ming_660E">>, "yunnansheng">> >>   \* 昆明 -> 云南省

\* the sentinel 未知省份
Unknown == "weizhishengfen"

\* re.search(pattern, text) for a pattern without metacharacters, and `pattern in text`:
\* the pattern occurs as a contiguous substring
Contains(text, pattern) ==
    \E i \in 1..(Len(text) - Len(pattern) + 1) :
        \A k \in 1..Len(pattern) : text[i + k - 1] = pattern[k]

\* d[key] on a dict given as its sequence of <<key, value>> pairs
Lookup(d, key) == (CHOOSE i \in 1..Len(d) : d[i][1] = key)

\* variant: the abbreviation that comes first in the text, not in the table
RECURSIVE AbbrAt(_, _)
AbbrAt(text, p) ==
    IF p > Len(text) THEN 0
    ELSE IF \E i \in 1..Len(province_abbr) : province_abbr[i][1] = text[p]
         THEN CHOOSE i \in 1..Len(province_abbr) : province_abbr[i][1] = text[p]
         ELSE AbbrAt(text, p + 1)

ScanAbbrTextOrder(text, i) == AbbrAt(text, 1)

\* variant: the last matching city of the table, not the first
RECURSIVE ScanCityLast(_, _)
ScanCityLast(text, i) ==
    IF i > Len(city_to_province) THEN 0
    ELSE LET later == ScanCityLast(text, i + 1) IN
         IF later # 0 THEN later
         ELSE IF Contains(text, city_to_province[i][1]) THEN i ELSE 0

\* for province in provinces: if re.search(province, location): ... (first match in list order; 0: none)
RECURSIVE ScanStems(_, _)
ScanStems(text, i) ==
    IF i > Len(provinces) THEN 0
    ELSE IF Contains(text, provinces[i]) THEN i
    ELSE ScanStems(text, i + 1)

\* for abbr, province in province_abbr.items(): if abbr in location: ...
RECURSIVE ScanAbbr(_, _)
ScanAbbr(text, i) ==
    IF i > Len(province_abbr) THEN 0
    ELSE IF Contains(text, <<province_abbr[i][1]>>) THEN i
    ELSE ScanAbbr(text, i + 1)

\* for city, province in city_to_province.items(): if city in location: ...
RECURSIVE ScanCity(_, _)
ScanCity(text, i) ==
    IF i > Len(city_to_province) THEN 0
    ELSE IF Contains(text, city_to_province[i][1]) THEN i
    ELSE ScanCity(text, i + 1)

\* re.search raises TypeError on a location that is not text (a non-zero number passes line 10)
extract_province_raises(cell) == truthy(cell) /\ ~isna(cell) /\ cell.k # "str"

\* variant: the abbreviation tier is tried before the stem tier
extract_province_abbr_first(cell) ==
    IF ~truthy(cell) \/ isna(cell) THEN Unknown
    ELSE LET a == ScanAbbr(cell.s, 1) IN
         IF a # 0 THEN province_abbr[a][2]
         ELSE LET s == ScanStems(cell.s, 1) IN
              IF s # 0 THEN province_fullname[Lookup(province_fullname, provinces[s])][2]
              ELSE LET c == ScanCity(cell.s, 1) IN
                   IF c # 0 THEN city_to_province[c][2]
                   ELSE Unknown

extract_province(cell) ==
    IF ~truthy(cell) \/ isna(cell) THEN Unknown
    ELSE LET s == ScanStems(cell.s, 1) IN
         IF s # 0 THEN province_fullname[Lookup(province_fullname, provinces[s])][2]
         ELSE LET a == ScanAbbr(cell.s, 1) IN
              IF a # 0 THEN province_abbr[a][2]
              ELSE LET c == ScanCity(cell.s, 1) IN
                   IF c # 0 THEN city_to_province[c][2]
                   ELSE Unknown

----------------------------------------------------------------------------
(* Python float arithmetic (IEEE-754 binary64, round to nearest, ties to   *)
(* even) on the non-negative values generate_province_colors computes.     *)
(* A natural number of any size is a sequence of limbs in base 2^15, least *)
(* significant first, without leading zero limbs; a float is m * 2^e with  *)
(* m a natural number of at most 53 bits (54 for a power of two).          *)

Base == 2^15

RECURSIVE Limbs(_)
Limbs(k) == IF k = 0 THEN <<>> ELSE <<k % Base>> \o Limbs(k \div Base)

RECURSIVE ToInt(_)
ToInt(a) == IF a = <<>> THEN 0 ELSE Head(a) + Base * ToInt(Tail(a))

RECURSIVE Norm(_)
Norm(a) ==
    IF a = <<>> THEN <<>>
    ELSE IF a[Len(a)] = 0 THEN Norm(SubSeq(a, 1, Len(a) - 1)) ELSE a

RECURSIVE AddC(_, _, _)
AddC(a, b, c) ==
    IF a = <<>> /\ b = <<>> THEN (IF c = 0 THEN <<>> ELSE <<c>>)
    ELSE LET x == IF a = <<>> THEN 0 ELSE Head(a)
             y == IF b = <<>> THEN 0 ELSE Head(b)
             t == x + y + c
         IN <<t % Base>> \o AddC(IF a = <<>> THEN a ELSE Tail(a),
                                 IF b = <<>> THEN b ELSE Tail(b), t \div Base)
AddN(a, b) == AddC(a, b, 0)

\* a - b for a >= b
RECURSIVE SubC(_, _, _)
SubC(a, b, c) ==
    IF a = <<>> THEN <<>>
    ELSE LET y == IF b = <<>> THEN 0 ELSE Head(b)
             t == Head(a) - y - c
         IN <<t % Base>> \o SubC(Tail(a), IF b = <<>> THEN b ELSE Tail(b),
                                 IF t < 0 THEN 1 ELSE 0)
SubN(a, b) == Norm(SubC(a, b, 0))

\* a * k for a small k (k < 2^15)
RECURSIVE MulC(_, _, _)
MulC(a, k, c) ==
    IF a = <<>> THEN (IF c = 0 THEN <<>> ELSE <<c>>)
    ELSE LET t == Head(a) * k + c
         IN <<t % Base>> \o MulC(Tail(a), k, t \div Base)
MulSmall(a, k) == IF k = 0 THEN <<>> ELSE MulC(a, k, 0)

RECURSIVE MulN(_, _)
MulN(a, b) ==
    IF a = <<>> \/ b = <<>> THEN <<>>
    ELSE LET rest == MulN(a, Tail(b))
         IN AddN(MulSmall(a, Head(b)), IF rest = <<>> THEN <<>> ELSE <<0>> \o rest)

\* quotient and remainder of a by a small k (0 < k < 2^15)
RECURSIVE DivSmall(_, _)
DivSmall(a, k) ==
    IF a = <<>> THEN [q |-> <<>>, r |-> 0]
    ELSE LET hi == DivSmall(Tail(a), k)
             cur == hi.r * Base + Head(a)
         IN [q |-> Norm(<<cur \div k>> \o hi.q), r |-> cur % k]

RECURSIVE Bits(_)
Bits(k) == IF k = 0 THEN 0 ELSE 1 + Bits(k \div 2)
BitLen(a) == IF a = <<>> THEN 0 ELSE 15 * (Len(a) - 1) + Bits(a[Len(a)])

Zeros(n) == [j \in 1..n |-> 0]
Shl(a, n) == IF a = <<>> THEN <<>> ELSE Zeros(n \div 15) \o MulSmall(a, 2^(n % 15))
Shr(a, n) ==
    IF n \div 15 >= Len(a) THEN <<>>
    ELSE DivSmall(SubSeq(a, (n \div 15) + 1, Len(a)), 2^(n % 15)).q

\* -1, 0, 1 as a < b, a = b, a > b
RECURSIVE CmpN(_, _)
CmpN(a, b) ==
    IF Len(a) # Len(b) THEN (IF Len(a) < Len(b) THEN -1 ELSE 1)
    ELSE IF a = <<>> THEN 0
    ELSE IF a[Len(a)] # b[Len(b)] THEN (IF a[Len(a)] < b[Len(b)] THEN -1 ELSE 1)
    ELSE CmpN(Norm(SubSeq(a, 1, Len(a) - 1)), Norm(SubSeq(b, 1, Len(b) - 1)))

\* the float nearest to M * 2^e, ties to even
FRound(M, e) ==
    IF BitLen(M) <= 53 THEN [m |-> M, e |-> IF M = <<>> THEN 0 ELSE e]
    ELSE LET sh == BitLen(M) - 53
             Q == Shr(M, sh)
             R == SubN(M, Shl(Q, sh))
             c == CmpN(R, Shl(<<1>>, sh - 1))
             up == c = 1 \/ (c = 0 /\ (Head(Q) % 2) = 1)
         IN [m |-> IF up THEN AddN(Q, <<1>>) ELSE Q, e |-> e + sh]

\* float(k) of a Python int
FromInt(k) == [m |-> Limbs(k), e |-> 0]

\* a * b
FMul(a, b) == FRound(MulN(a.m, b.m), a.e + b.e)

\* a / k for a float k with a small integer value: the quotient to 60 bits or more,
\* with one more bit set when the division left a remainder, then rounded
FDivInt(a, k) ==
    LET d == DivSmall(Shl(a.m, 75), k)
    IN FRound(AddN(MulSmall(d.q, 2), IF d.r = 0 THEN <<>> ELSE <<1>>), a.e - 76)

\* a - b for a >= b >= 0
FSub(a, b) ==
    IF b.m = <<>> THEN a
    ELSE LET e0 == IF a.e < b.e THEN a.e ELSE b.e
         IN FRound(SubN(Shl(a.m, a.e - e0), Shl(b.m, b.e - e0)), e0)

\* int(a): truncation
Trunc(a) == IF a.e >= 0 THEN ToInt(Shl(a.m, a.e)) ELSE ToInt(Shr(a.m, -a.e))

----------------------------------------------------------------------------
(* generate_province_colors *)

\* f'{x:02x}': lowercase hexadecimal, at least two digits
HexDigits == <<"0", "1", "2", "3", "4", "5", "6", "7", "8", "9", "a", "b", "c", "d", "e", "f">>
RECURSIVE Hex(_)
Hex(x) == IF x < 16 THEN <<HexDigits[x + 1]>> ELSE Hex(x \div 16) \o <<HexDigits[(x % 16) + 1]>>
Hex02(x) == IF x < 16 THEN <<"0">> \o Hex(x) ELSE Hex(x)

\* the float literals 0.6 and 0.8 (the floats nearest to 6/10 and 8/10) and 1
sat == FDivInt(FromInt(6), 10)
val == FDivInt(FromInt(8), 10)
One == FromInt(1)

\* dict(pairs) of a list of <<key, value>> pairs: a later pair replaces an earlier one
dict(pairs) ==
    [key \in {pairs[k][1] : k \in 1..Len(pairs)} |->
        pairs[CHOOSE k \in 1..Len(pairs) :
                /\ pairs[k][1] = key
                /\ \A j \in (k + 1)..Len(pairs) : pairs[j][1] # key][2]]

\* line 88 raises ZeroDivisionError when it divides by a length of 0: the division is
\* evaluated for a non-empty list only
ZeroDivision(province_list) == province_list # <<>> /\ Len(province_list) = 0

\* hue_steps = 360 / len(provinces) if province_list else 0
hue_steps(province_list) ==
    IF province_list # <<>> THEN FDivInt(FromInt(360), Len(province_list)) ELSE FromInt(0)

\* variant: the fractional part of the hue sector is lost (f = 0)
hsv_hex_sector_only(hue) ==
    LET h == FDivInt(FromInt(hue), 360)
        sector == Trunc(FMul(h, FromInt(6)))
        p == FMul(val, FSub(One, sat))
        q == val
        t == p
        rgb == CASE sector = 0 -> <<val, t, p>>
                 [] sector = 1 -> <<q, val, p>>
                 [] sector = 2 -> <<p, val, t>>
                 [] sector = 3 -> <<p, q, val>>
                 [] sector = 4 -> <<t, p, val>>
                 [] OTHER -> <<val, p, q>>
        r == Trunc(FMul(rgb[1], FromInt(255)))
        g == Trunc(FMul(rgb[2], FromInt(255)))
        b == Trunc(FMul(rgb[3], FromInt(255)))
    IN <<"#">> \o Hex02(r) \o Hex02(g) \o Hex02(b)

\* lines 94-122 of the loop body: the hex colour of an integer hue
hsv_hex(hue) ==
    LET h == FDivInt(FromInt(hue), 360)
        h6 == FMul(h, FromInt(6))
        sector == Trunc(h6)
        f == FSub(h6, FromInt(sector))
        p == FMul(val, FSub(One, sat))
        q == FMul(val, FSub(One, FMul(f, sat)))
        t == FMul(val, FSub(One, FMul(FSub(One, f), sat)))
        rgb == CASE sector = 0 -> <<val, t, p>>
                 [] sector = 1 -> <<q, val, p>>
                 [] sector = 2 -> <<p, val, t>>
                 [] sector = 3 -> <<p, q, val>>
                 [] sector = 4 -> <<t, p, val>>
                 [] OTHER -> <<val, p, q>>
        r == Trunc(FMul(rgb[1], FromInt(255)))
        g == Trunc(FMul(rgb[2], FromInt(255)))
        b == Trunc(FMul(rgb[3], FromInt(255)))
    IN <<"#">> \o Hex02(r) \o Hex02(g) \o Hex02(b)

\* hsv_hex depends on the hue alone: its values for the hues int(i * hue_steps) can
\* take (i < len(provinces), so the hue is below 360), computed once
HsvHexOfHue == [hue \in 0..359 |-> hsv_hex(hue)]

\* one pass of the loop body (lines 90-123) for index i: the hex colour
hex_color(i, province_list) ==
    HsvHexOfHue[Trunc(FMul(FromInt(i), hue_steps(province_list)))]

\* the loop over enumerate(provinces) and dict(colors)
generate_province_colors(province_list) ==
    dict([k \in 1..Len(province_list) |-> <<province_list[k], hex_color(k - 1, province_list)>>])

----------------------------------------------------------------------------
(* generate_dialect_json: the values and helpers of the record builder *)

\* a cell holding an Excel date (pandas reads it as a Timestamp)
Date == [k |-> "date", s |-> <<>>, n |-> 0]

\* a Python float: a finite value (the model keeps integer values) or inf
Fin(v) == [k |-> "fin", v |-> v]
Inf == [k |-> "inf", v |-> 0]

Digits == <<"0", "1", "2", "3", "4", "5", "6", "7", "8", "9">>
IsDigit(c) == \E d \in 1..10 : Digits[d] = c
DigitValue(c) == (CHOOSE d \in 1..10 : Digits[d] = c) - 1

\* the value of a string of decimal digits
RECURSIVE ParseDigits(_)
ParseDigits(s) ==
    IF s = <<>> THEN 0
    ELSE 10 * ParseDigits(SubSeq(s, 1, Len(s) - 1)) + DigitValue(s[Len(s)])

\* float(x) of a text: of the texts Python accepts the model reads the strings of
\* decimal digits and "inf"; any other text raises ValueError
IsNumeral(s) == s # <<>> /\ \A j \in 1..Len(s) : IsDigit(s[j])
IsInfinity(s) == s = <<"i", "n", "f">>

\* float(x) raises ValueError on a text that is no number and TypeError on a Timestamp
float_raises(cell) ==
    \/ cell.k = "date"
    \/ cell.k = "str" /\ ~IsNumeral(cell.s) /\ ~IsInfinity(cell.s)

float(cell) ==
    CASE cell.k = "num" -> Fin(cell.n)
      [] cell.k = "str" /\ IsNumeral(cell.s) -> Fin(ParseDigits(cell.s))
      [] cell.k = "str" /\ IsInfinity(cell.s) -> Inf

\* str(n) of a non-negative int, as in f"dialect_{index + 1}"
RECURSIVE Decimal(_)
Decimal(n) == IF n < 10 THEN <<Digits[n + 1]>> ELSE Decimal(n \div 10) \o <<Digits[(n % 10) + 1]>>

\* the last position of character c in s, 0 when it does not occur
RECURSIVE LastIndex(_, _)
LastIndex(s, c) ==
    IF s = <<>> THEN 0
    ELSE IF s[Len(s)] = c THEN Len(s)
    ELSE LastIndex(SubSeq(s, 1, Len(s) - 1), c)

\* os.path.basename(p): what follows the last "/"
basename(p) == SubSeq(p, LastIndex(p, "/") + 1, Len(p))

\* os.path.splitext(name)[0] of a name without "/": what precedes the last ".", unless
\* only dots precede it
splitext_root(name) ==
    LET dot == LastIndex(name, ".")
    IN IF dot > 1 /\ \E j \in 1..(dot - 1) : name[j] # "."
       THEN SubSeq(name, 1, dot - 1)
       ELSE name

\* Series.unique().tolist(): the distinct values in the order of their first occurrence
RECURSIVE unique(_)
unique(s) ==
    IF s = <<>> THEN <<>>
    ELSE LET u == unique(SubSeq(s, 1, Len(s) - 1))
         IN IF \E j \in 1..Len(u) : u[j] = s[Len(s)] THEN u ELSE Append(u, s[Len(s)])

\* the default colour "#999999" of province_colors.get
DefaultGray == <<"#", "9", "9", "9", "9", "9", "9">>

\* the audio_prefix argument of the call in __main__: "Audio/"
audio_prefix == <<"A", "u", "d", "i", "o", "/">>

\* the placeholder texts 未知地点_, 未知采集人, 无内容描述
UnknownLocation == <<"wei_672A", "zhi_77E5", "di_5730", "dian_70B9", "_">>
UnknownCollector == Text(<<"wei_672A", "zhi_77E5", "cai_91C7", "ji_96C6", "ren_4EBA">>)
NoContent == Text(<<"wu_65E0", "nei_5185", "rong_5BB9", "miao_63CF", "shu_8FF0">>)

\* "dialect_"
IdPrefix == <<"d", "i", "a", "l", "e", "c", "t", "_">>

\* lines 155-161: the pair <<longitude, latitude>> of a row; one except clause serves
\* both conversions and sets both coordinates
coordinates(row) ==
    IF \/ notnull(row.longitude) /\ float_raises(row.longitude)
       \/ notnull(row.latitude) /\ float_raises(row.latitude)
    THEN <<Fin(0), Fin(0)>>
    ELSE << IF notnull(row.longitude) THEN float(row.longitude) ELSE Fin(0),
            IF notnull(row.latitude) THEN float(row.latitude) ELSE Fin(0) >>

\* line 164: audio_url
audio_url(row) == IF notnull(row.audio) THEN row.audio ELSE Text(<<>>)

\* line 171 raises TypeError: os.path.basename of an audio value that is no text
audio_raises(row) == truthy(audio_url(row)) /\ audio_url(row).k # "str"

\* lines 166-171: the audio object of a row
audio(row) ==
    IF truthy(audio_url(row))
    THEN [url |-> audio_prefix \o audio_url(row).s,
          name |-> splitext_root(basename(audio_url(row).s))]
    ELSE [url |-> <<>>, name |-> <<>>]

\* lines 174-191: the record of the row at 0-based position i of the table
dialect_item(row, i, prov, province_color_map) ==
    [id |-> IdPrefix \o Decimal(i + 1),
     location |-> IF notnull(row.location) THEN row.location
                  ELSE Text(UnknownLocation \o Decimal(i + 1)),
     province |-> prov,
     longitude |-> coordinates(row)[1],
     latitude |-> coordinates(row)[2],
     color |-> IF prov \in DOMAIN province_color_map THEN province_color_map[prov]
               ELSE DefaultGray,
     collector |-> IF notnull(row.collector) THEN row.collector ELSE UnknownCollector,
     audio |-> audio(row),
     content |-> IF notnull(row.content) THEN row.content ELSE NoContent]

\* json.dump raises TypeError on a value that is not JSON serializable (a Timestamp)
serializable(item) ==
    /\ item.location.k # "date"
    /\ item.collector.k # "date"
    /\ item.content.k # "date"

\* the number of leading records json.dump writes before it meets one it cannot serialize
RECURSIVE written_prefix(_)
written_prefix(items) ==
    IF items = <<>> \/ ~serializable(Head(items)) THEN 0
    ELSE 1 + written_prefix(Tail(items))

----------------------------------------------------------------------------
(* The three calls are specified separately; the variables of a call that  *)
(* a specification does not make stay idle.                                *)

ResolverIdle ==
    /\ location = NaN
    /\ province = "none"
    /\ rpc = "idle"

ColorsIdle ==
    /\ labels = <<>>
    /\ color_map = <<>>
    /\ cpc = "idle"

DriverIdle ==
    /\ excel = <<>>
    /\ excel_ok = TRUE
    /\ out_ok = TRUE
    /\ pc = "idle"
    /\ df = <<>>
    /\ df_province = <<>>
    /\ unique_provinces = <<>>
    /\ province_colors = <<>>
    /\ index = 0
    /\ dialect_list = <<>>
    /\ out_file = [exists |-> FALSE, content |-> <<>>]
    /\ returned = "none"

----------------------------------------------------------------------------
(* Specification SpecResolver: one call of extract_province on a location  *)
(* cell drawn from the texts built from table entries and filler           *)
(* characters, a missing cell and number cells.                            *)

\* characters that occur in no table: 某, 村
Fillers == { <<"mou_67D0">>, <<"cun_6751">> }

Tokens ==
    {provinces[i] : i \in 1..Len(provinces)}
        \cup {<<province_abbr[i][1]>> : i \in 1..Len(province_abbr)}
        \cup {city_to_province[i][1] : i \in 1..Len(city_to_province)}
        \cup Fillers

\* the concatenation of the first n parts
RECURSIVE Concat(_, _)
Concat(parts, n) == IF n = 0 THEN <<>> ELSE Concat(parts, n - 1) \o parts[n]

ResolverInit ==
    /\ \/ \E parts \in [1..MaxParts -> Tokens \cup {<<>>}] :
             location = Text(Concat(parts, MaxParts))
       \/ location \in {NaN, Number(0), Number(7)}
    /\ province = "none"
    /\ rpc = "call"
    /\ ColorsIdle
    /\ DriverIdle

\* the call returns a province, or raises TypeError (line 40) on a number
Resolve ==
    /\ rpc = "call"
    /\ IF extract_province_raises(location)
       THEN rpc' = "raised" /\ province' = province
       ELSE rpc' = "returned" /\ province' = extract_province(location)
    /\ UNCHANGED <<location, color_vars, driver_vars>>

ResolverNext == Resolve

SpecResolver == ResolverInit /\ [][ResolverNext]_vars

----------------------------------------------------------------------------
(* Specification SpecColors: one call of generate_province_colors on a     *)
(* list of pairwise distinct labels.  The function never looks into a      *)
(* label, so the k-th label of the list is written k.                      *)

ColorsInit ==
    /\ \E n \in 0..MaxLabels : labels = [k \in 1..n |-> k]
    /\ color_map = <<>>
    /\ cpc = "call"
    /\ ResolverIdle
    /\ DriverIdle

Allocate ==
    /\ cpc = "call"
    /\ IF ZeroDivision(labels)
       THEN cpc' = "raised" /\ color_map' = color_map
       ELSE cpc' = "returned" /\ color_map' = generate_province_colors(labels)
    /\ UNCHANGED <<labels, resolver_vars, driver_vars>>

ColorsNext == Allocate

SpecColors == ColorsInit /\ [][ColorsNext]_vars

----------------------------------------------------------------------------
(* Specification Spec: one call of generate_dialect_json on a table of at  *)
(* most MaxRows rows.  A row is the base row with one of its fields, or    *)
(* both of its coordinates, replaced.                                      *)

BaseRow ==
    [location |-> Text(<<"guang_5E7F", "zhou_5DDE">>),             \* 广州
     latitude |-> Number(23),
     longitude |-> Number(113),
     collector |-> Text(<<"a">>),
     audio |-> Text(<<"r", "e", "c", "/", "f", "o", "o", ".", "w", "a", "v">>),
     content |-> Text(<<"b">>)]

LocationCells ==
    { NaN,
      Text(<<"shen_6DF1", "zhen_5733">>),                           \* 深圳
      Text(<<"hu_6CAA", "shang_4E0A">>),                            \* 沪上
      Text(<<"mou_67D0", "cun_6751">>),                             \* 某村
      Number(7) }

CoordinateCells == { NaN, Text(<<"b", "a", "d">>), Text(<<"i", "n", "f">>), Text(<<"4", "0">>) }

AudioCells == { NaN, Number(5), Text(<<"f", "o", "o">>) }

Rows ==
    {BaseRow}
        \cup {[BaseRow EXCEPT !.location = c] : c \in LocationCells}
        \cup {[BaseRow EXCEPT !.latitude = c] : c \in CoordinateCells}
        \cup {[BaseRow EXCEPT !.longitude = c] : c \in CoordinateCells}
        \cup {[BaseRow EXCEPT !.latitude = c, !.longitude = c] : c \in CoordinateCells}
        \cup {[BaseRow EXCEPT !.audio = c] : c \in AudioCells}
        \cup {[BaseRow EXCEPT !.content = c] : c \in {NaN, Date}}
        \cup {[BaseRow EXCEPT !.collector = NaN]}

Init ==
    /\ \E n \in 0..MaxRows : excel \in [1..n -> Rows]
    /\ excel_ok \in BOOLEAN
    /\ out_ok \in BOOLEAN
    /\ pc = "start"
    /\ df = <<>>
    /\ df_province = <<>>
    /\ unique_provinces = <<>>
    /\ province_colors = <<>>
    /\ index = 0
    /\ dialect_list = <<>>
    /\ out_file = [exists |-> FALSE, content |-> <<>>]
    /\ returned = "none"
    /\ ResolverIdle
    /\ ColorsIdle

\* lines 205-207: the except clause of the function
Caught ==
    /\ pc' = "done"
    /\ returned' = "False"

\* lines 138-142: pd.read_excel; it raises when the file or a column is missing
ReadExcel ==
    /\ pc = "start"
    /\ IF excel_ok
       THEN /\ df' = excel
            /\ pc' = "read"
            /\ UNCHANGED returned
       ELSE /\ Caught
            /\ UNCHANGED df
    /\ UNCHANGED <<excel, excel_ok, out_ok, df_province, unique_provinces, province_colors,
                   index, dialect_list, out_file, resolver_vars, color_vars>>

\* line 145: df["省份"] = df["地点名"].apply(extract_province)
ApplyExtractProvince ==
    /\ pc = "read"
    /\ IF \E k \in 1..Len(df) : extract_province_raises(df[k].location)
       THEN /\ Caught
            /\ UNCHANGED df_province
       ELSE /\ df_province' = [k \in 1..Len(df) |-> extract_province(df[k].location)]
            /\ pc' = "resolved"
            /\ UNCHANGED returned
    /\ UNCHANGED <<excel, excel_ok, out_ok, df, unique_provinces, province_colors,
                   index, dialect_list, out_file, resolver_vars, color_vars>>

\* lines 148-149: the distinct provinces and their colours
AllocateColors ==
    /\ pc = "resolved"
    /\ IF ZeroDivision(unique(df_province))
       THEN /\ Caught
            /\ UNCHANGED <<unique_provinces, province_colors>>
       ELSE /\ unique_provinces' = unique(df_province)
            /\ province_colors' = generate_province_colors(unique(df_province))
            /\ pc' = "colored"
            /\ UNCHANGED returned
    /\ UNCHANGED <<excel, excel_ok, out_ok, df, df_province,
                   index, dialect_list, out_file, resolver_vars, color_vars>>

\* variant: a row with a malformed coordinate is skipped (no record is appended)
BuildRowSkipMalformed ==
    /\ pc = "colored"
    /\ index < Len(df)
    /\ IF audio_raises(df[index + 1])
       THEN /\ Caught
            /\ UNCHANGED <<index, dialect_list>>
       ELSE /\ dialect_list' =
                 IF \/ notnull(df[index + 1].longitude) /\ float_raises(df[index + 1].longitude)
                    \/ notnull(df[index + 1].latitude) /\ float_raises(df[index + 1].latitude)
                 THEN dialect_list
                 ELSE Append(dialect_list,
                    dialect_item(df[index + 1], index, df_province[index + 1], province_colors))
            /\ index' = index + 1
            /\ UNCHANGED <<pc, returned>>
    /\ UNCHANGED <<excel, excel_ok, out_ok, df, df_province, unique_provinces,
                   province_colors, out_file, resolver_vars, color_vars>>

\* lines 153-193: one pass of the loop over df.iterrows(); the index of a row is its
\* 0-based position
BuildRow ==
    /\ pc = "colored"
    /\ index < Len(df)
    /\ IF audio_raises(df[index + 1])
       THEN /\ Caught
            /\ UNCHANGED <<index, dialect_list>>
       ELSE /\ dialect_list' = Append(dialect_list,
                    dialect_item(df[index + 1], index, df_province[index + 1], province_colors))
            /\ index' = index + 1
            /\ UNCHANGED <<pc, returned>>
    /\ UNCHANGED <<excel, excel_ok, out_ok, df, df_province, unique_provinces,
                   province_colors, out_file, resolver_vars, color_vars>>

\* line 196: open(output_json, 'w') creates or empties the file, or raises OSError
OpenOutput ==
    /\ pc = "colored"
    /\ index = Len(df)
    /\ IF out_ok
       THEN /\ out_file' = [exists |-> TRUE, content |-> <<>>]
            /\ pc' = "opened"
            /\ UNCHANGED returned
       ELSE /\ Caught
            /\ UNCHANGED out_file
    /\ UNCHANGED <<excel, excel_ok, out_ok, df, df_province, unique_provinces,
                   province_colors, index, dialect_list, resolver_vars, color_vars>>

\* lines 197-203: json.dump writes the records one after the other into the open file
\* and raises at the first it cannot serialize; the file is closed either way
JsonDump ==
    /\ pc = "opened"
    /\ out_file' = [exists |-> TRUE,
                    content |-> SubSeq(dialect_list, 1, written_prefix(dialect_list))]
    /\ IF written_prefix(dialect_list) = Len(dialect_list)
       THEN pc' = "done" /\ returned' = "True"
       ELSE Caught
    /\ UNCHANGED <<excel, excel_ok, out_ok, df, df_province, unique_provinces,
                   province_colors, index, dialect_list, resolver_vars, color_vars>>

Next ==
    \/ ReadExcel
    \/ ApplyExtractProvince
    \/ AllocateColors
    \/ BuildRow
    \/ OpenOutput
    \/ JsonDump

Spec == Init /\ [][Next]_vars

----------------------------------------------------------------------------
(* Properties of extract_province (checked under SpecResolver) *)

\* the table entries (by index) that occur in a text: entry i occurs when it starts at
\* some position p of the text (the entries are grouped by their first character)
Chars == UNION {{t[k] : k \in 1..Len(t)} : t \in Tokens}
StemsByFirst == [c \in Chars |-> {i \in 1..Len(provinces) : provinces[i][1] = c}]
AbbrsByFirst == [c \in Chars |-> {i \in 1..Len(province_abbr) : province_abbr[i][1] = c}]
CitiesByFirst == [c \in Chars |-> {i \in 1..Len(city_to_province) : city_to_province[i][1][1] = c}]
StartsAt(text, p, pattern) ==
    /\ p + Len(pattern) - 1 <= Len(text)
    /\ \A k \in 1..Len(pattern) : text[p + k - 1] = pattern[k]
StemsIn(text) ==
    UNION {{i \in StemsByFirst[text[p]] : StartsAt(text, p, provinces[i])} : p \in 1..Len(text)}
AbbrsIn(text) == UNION {AbbrsByFirst[text[p]] : p \in 1..Len(text)}
CitiesIn(text) ==
    UNION {{i \in CitiesByFirst[text[p]] : StartsAt(text, p, city_to_province[i][1])} : p \in 1..Len(text)}
First(S) == CHOOSE x \in S : \A y \in S : x <= y
FullNameOf(stem) ==
    {province_fullname[k][2] : k \in {j \in 1..Len(province_fullname) : province_fullname[j][1] = stem}}
ReturnedOnText == rpc = "returned" /\ location.k = "str"

\* C1 as stated: whenever a stem occurs in a non-empty location text, the call returns
\* the full canonical name the stem-to-full-name table gives for that stem.
C1_EveryContainedStemDecides ==
    ReturnedOnText =>
        \A i \in StemsIn(location.s) : province \in FullNameOf(provinces[i])

\* C1 amended: when at least one stem occurs in the location text, the call returns the
\* full canonical name of the first stem, in the order of the stem list, that occurs in it.
C1_FirstContainedStemDecides ==
    (ReturnedOnText /\ StemsIn(location.s) # {}) =>
        province \in FullNameOf(provinces[First(StemsIn(location.s))])

\* two stems occur in the text and the first of them in list order decided
C1_Witness ==
    /\ ReturnedOnText
    /\ Cardinality(StemsIn(location.s)) >= 2
    /\ province \in FullNameOf(provinces[First(StemsIn(location.s))])

\* C2: with no stem but at least one abbreviation character in the location text, the
\* call returns the province of the first abbreviation in table order that occurs in the
\* text, whatever its position and whatever city names occur: the city table has no say.
C2_FirstAbbrInTableOrder ==
    (ReturnedOnText /\ StemsIn(location.s) = {} /\ AbbrsIn(location.s) # {}) =>
        province = province_abbr[First(AbbrsIn(location.s))][2]

\* no stem, the first character of the text is an abbreviation that is not the first in
\* table order, and a city of another province occurs too
C2_Witness ==
    /\ ReturnedOnText
    /\ StemsIn(location.s) = {}
    /\ Cardinality(AbbrsIn(location.s)) >= 2
    /\ province_abbr[First(AbbrsIn(location.s))][1] # location.s[1]
    /\ \E c \in CitiesIn(location.s) : city_to_province[c][2] # province
    /\ province = province_abbr[First(AbbrsIn(location.s))][2]

\* C7: with no stem and no abbreviation in the location text, the call returns the
\* province of the first city-table entry, in table order, that occurs in the text, and
\* the sentinel when no city occurs either.
C7_FirstCityOrUnknown ==
    (ReturnedOnText /\ StemsIn(location.s) = {} /\ AbbrsIn(location.s) = {}) =>
        IF CitiesIn(location.s) # {}
        THEN province = city_to_province[First(CitiesIn(location.s))][2]
        ELSE province = Unknown

\* two cities of different provinces occur, the one later in the table first in the text
C7_Witness ==
    /\ ReturnedOnText
    /\ StemsIn(location.s) = {} /\ AbbrsIn(location.s) = {}
    /\ \E c, d \in CitiesIn(location.s) :
          /\ c < d
          /\ city_to_province[c][2] # city_to_province[d][2]
          /\ SubSeq(location.s, 1, Len(city_to_province[d][1])) = city_to_province[d][1]
          /\ province = city_to_province[c][2]

\* C9 as stated: a location that is exactly one city name of the city table resolves to
\* the province the city table gives for that city.
C9_EveryCityEntryEffective ==
    ReturnedOnText =>
        \A i \in 1..Len(city_to_province) :
            location.s = city_to_province[i][1] => province = city_to_province[i][2]

----------------------------------------------------------------------------
(* Properties of generate_province_colors (checked under SpecColors) *)

HexDigitSet == {HexDigits[d] : d \in 1..16}
WellFormed(c) == Len(c) = 7 /\ c[1] = "#" /\ \A d \in 2..7 : c[d] \in HexDigitSet
AllocatedOk ==
    /\ cpc = "returned"
    /\ DOMAIN color_map = {labels[k] : k \in 1..Len(labels)}
    /\ Cardinality(DOMAIN color_map) = Len(labels)
    /\ \A a, b \in DOMAIN color_map : a # b => color_map[a] # color_map[b]
    /\ \A a \in DOMAIN color_map : WellFormed(color_map[a])

\* C4 as stated: for every list of N >= 0 pairwise distinct labels the call returns (no
\* division by zero) a mapping with N entries, whose colours are pairwise distinct and
\* each "#" followed by six lowercase hex digits.
C4_DistinctColorsAnyN == cpc # "call" => AllocatedOk

\* C4 amended: the same for every list of at most 360 pairwise distinct labels (hence
\* for every N up to the 35 labels extract_province can return, and for N = 0, where
\* the mapping is empty); there are only 360 integer hues.
C4_DistinctColorsUpTo360 == (cpc # "call" /\ Len(labels) <= 360) => AllocatedOk

\* the call on 35 labels returned 35 distinct colours
C4_Witness ==
    /\ cpc = "returned"
    /\ Len(labels) = Len(province_fullname) + 1
    /\ Cardinality({color_map[a] : a \in DOMAIN color_map}) = Len(labels)

----------------------------------------------------------------------------
(* Properties of generate_dialect_json (checked under Spec) *)

Records == 1..Len(dialect_list)
Finite(x) == x.k = "fin"
\* a coordinate cell that is present but cannot be parsed as a number
Unparsable(cell) == notnull(cell) /\ float_raises(cell)
\* a coordinate cell that holds a number, and the number
ValidNumber(cell) == notnull(cell) /\ ~float_raises(cell) /\ Finite(float(cell))

\* C3 as stated: every record carries the province extract_province gives for the
\* location of its row; its colour is the default gray when that province is the unknown
\* sentinel, and the colour generate_province_colors assigned to the province otherwise.
C3_UnknownProvinceIsGray ==
    \A k \in Records :
        /\ dialect_list[k].province = extract_province(excel[k].location)
        /\ dialect_list[k].color =
              IF dialect_list[k].province = Unknown THEN DefaultGray
              ELSE province_colors[dialect_list[k].province]

\* C5 as stated: when the call returns False (an exception was raised at some step and
\* caught), the output file has been neither created nor partially written.
C5_FailureLeavesNoFile ==
    /\ pc = "done" => returned \in {"True", "False"}
    /\ returned = "False" => (~out_file.exists /\ out_file.content = <<>>)

\* C6 as stated: in every record longitude and latitude are finite numbers, and a
\* coordinate whose cell is missing or cannot be parsed as a number is 0.0; every row
\* the loop has passed has its record, whatever its coordinates.
C6_CoordinatesFinite ==
    /\ Len(dialect_list) = index
    /\ \A k \in Records :
           /\ Finite(dialect_list[k].longitude)
           /\ Finite(dialect_list[k].latitude)
           /\ (isna(excel[k].longitude) \/ Unparsable(excel[k].longitude))
                 => dialect_list[k].longitude = Fin(0)
           /\ (isna(excel[k].latitude) \/ Unparsable(excel[k].latitude))
                 => dialect_list[k].latitude = Fin(0)

\* C8: when the call returns True, the list (and the file) holds one record per row, in
\* row order: the k-th record has the id "dialect_k" and the fields of the k-th row.
C8_OneRecordPerRowInOrder ==
    returned = "True" =>
        /\ Len(dialect_list) = Len(excel)
        /\ out_file.content = dialect_list
        /\ \A k \in Records :
              /\ dialect_list[k].id = IdPrefix \o Decimal(k)
              /\ dialect_list[k].location =
                    IF notnull(excel[k].location) THEN excel[k].location
                    ELSE Text(UnknownLocation \o Decimal(k))
              /\ dialect_list[k].collector =
                    IF notnull(excel[k].collector) THEN excel[k].collector ELSE UnknownCollector
              /\ dialect_list[k].content =
                    IF notnull(excel[k].content) THEN excel[k].content ELSE NoContent
              /\ isna(excel[k].audio) <=> dialect_list[k].audio.url = <<>>
              /\ isna(excel[k].longitude) => dialect_list[k].longitude = Fin(0)
              /\ ValidNumber(excel[k].latitude) /\ ValidNumber(excel[k].longitude)
                    => /\ dialect_list[k].latitude = float(excel[k].latitude)
                       /\ dialect_list[k].longitude = float(excel[k].longitude)

\* a successful run over two different rows, the first with a malformed coordinate and
\* the second without a location
C8_Witness ==
    /\ returned = "True"
    /\ Len(excel) = 2
    /\ Unparsable(excel[1].latitude)
    /\ isna(excel[2].location)
    /\ Len(dialect_list) = 2
    /\ dialect_list[2].id = IdPrefix \o <<"2">>

\* C10 as stated: in a row where exactly one of latitude and longitude cannot be parsed
\* and the other is a valid number, the record has 0.0 for the unparsable coordinate and
\* the input value for the valid one.
C10_CoercionPerField ==
    \A k \in Records :
        /\ (Unparsable(excel[k].latitude) /\ ValidNumber(excel[k].longitude))
              => /\ dialect_list[k].latitude = Fin(0)
                 /\ dialect_list[k].longitude = float(excel[k].longitude)
        /\ (Unparsable(excel[k].longitude) /\ ValidNumber(excel[k].latitude))
              => /\ dialect_list[k].longitude = Fin(0)
                 /\ dialect_list[k].latitude = float(excel[k].latitude)

====
